---- MODULE Spec2Model ----
(***************************************************************************)
(* Model of VoiceCloner (voice_cloning_script.py): the single-request      *)
(* dispatchers simple_text_to_speech / _fallback_tts /                     *)
(* clone_voice_from_sample, language selection, and the batch loops        *)
(* process_csv_file / process_json_file.                                   *)
(*                                                                         *)
(* Texts are sequences of Unicode code points, so that strip(),            *)
(* lower(), slicing and the Cyrillic test are computed, not assumed.       *)
(* Speeds are in tenths (0.5 -> 5, 2.0 -> 20).  File sizes are bytes,      *)
(* Absent marks a path that does not exist.                                *)
(***************************************************************************)
EXTENDS Integers, Sequences, FiniteSets, TLC

VARIABLES
    GTTS_AVAILABLE,     \* module flag: gtts importable
    PYTTSX3_AVAILABLE,  \* module flag: pyttsx3 importable
    primary_engine,     \* self.primary_engine
    tts,                \* self.tts (model handle)
    tts_engine,         \* self.tts_engine
    fs,                 \* filesystem: path -> size, or Absent
    last,               \* the most recent dispatcher call and what it did
    pc,                 \* position of the batch run: idle / loop / done
    batch,              \* arguments and loaded data of the running batch
    idx,                \* loop index of the batch run
    results,            \* the accumulating {"success": [...], "failed": [...]}
    skipped,            \* number of loop iterations that ended in `continue`
    dispatched,         \* indices for which a dispatcher was called
    report              \* the value the batch call returned

vars == <<GTTS_AVAILABLE, PYTTSX3_AVAILABLE, primary_engine, tts, tts_engine,
          fs, last, pc, batch, idx, results, skipped, dispatched, report>>

-----------------------------------------------------------------------------
(* Bounds *)

MaxItems == 2

-----------------------------------------------------------------------------
(* Program constants *)

MinFileSize == 1000
SpeedMin == 5
SpeedMax == 20
DefaultSpeed == 10
TextPreview == 30
PadWidth == 4

Absent == -1

supported_languages ==
    <<"en", "es", "fr", "de", "it", "pt", "pl", "tr", "ru", "nl", "cs",
      "ar", "zh-cn", "hu", "ko", "ja", "hi">>

supported_langs == supported_languages

\* the code points of the letters of the Cyrillic string literal
\* (U+0430 .. U+044F, 32 letters)
CyrillicLetters == 1072..1103

-----------------------------------------------------------------------------
(* Strings *)

Range(s) == {s[i] : i \in 1..Len(s)}

\* characters are Unicode code points: space, tab, newline
Whitespace == {32, 9, 10}

\* str.lower() on Latin and Cyrillic capitals
LowerChar(c) ==
    IF (c >= 65 /\ c <= 90) \/ (c >= 1040 /\ c <= 1071) THEN c + 32 ELSE c

Lower(s) == [i \in 1..Len(s) |-> LowerChar(s[i])]

\* str.strip(): drop leading and trailing whitespace
Strip(s) ==
    LET keep == {i \in 1..Len(s) : s[i] \notin Whitespace}
    IN  IF keep = {} THEN <<>>
        ELSE LET lo == CHOOSE i \in keep : \A j \in keep : i <= j
                 hi == CHOOSE i \in keep : \A j \in keep : j <= i
             IN  SubSeq(s, lo, hi)

\* s[:n]
Prefix(s, n) == SubSeq(s, 1, IF Len(s) < n THEN Len(s) ELSE n)

\* values found in a CSV cell or a JSON field
StrVal(s) == [t |-> "str", s |-> s]
NaN == [t |-> "nan", s |-> <<>>]
Null == [t |-> "none", s |-> <<>>]

\* str(value)
Str(v) ==
    CASE v.t = "str" -> v.s
      [] v.t = "nan" -> <<110, 97, 110>>
      [] v.t = "none" -> <<78, 111, 110, 101>>

\* pd.isna(value)
IsNa(v) == v.t = "nan"

-----------------------------------------------------------------------------
(* Paths and the filesystem *)

RECURSIVE DecimalDigits(_)
DecimalDigits(n) ==
    IF n < 10 THEN <<n>> ELSE Append(DecimalDigits(n \div 10), n % 10)

RECURSIVE ZeroPad(_, _)
ZeroPad(ds, w) == IF Len(ds) >= w THEN ds ELSE ZeroPad(<<0>> \o ds, w)

OutputFilenameHalved(i) ==
    <<"audio_">> \o ZeroPad(DecimalDigits(i \div 2), PadWidth) \o <<".wav">>

\* f"audio_{idx:04d}.wav"
OutputFilename(i) == <<"audio_">> \o ZeroPad(DecimalDigits(i), PadWidth) \o <<".wav">>

\* os.path.join(output_dir, output_filename)
OutputPath(dir, i) == <<dir, "/">> \o OutputFilename(i)

OutputDir == "output_audio"
SpeakerSample == <<"speaker_sample.wav">>
DirectOutput == <<"output.wav">>

DirectPaths == {SpeakerSample, DirectOutput}
BatchPaths == {OutputPath(OutputDir, i) : i \in 0..(MaxItems - 1)}
Paths == DirectPaths \cup BatchPaths

Sizes == {0, 1001}

\* os.path.exists(path)
Exists(files, path) == path \in DOMAIN files /\ files[path] # Absent

\* None and "" for an Optional[str] path
None == <<>>

\* the truth value of an Optional[str] argument
Truthy(path) == path # None

-----------------------------------------------------------------------------
(* The engines: what a call to an external engine can do *)

\* an engine returns, having written a file of some size or nothing, or it
\* raises; "speaker_wav" is an exception whose message holds that word
ReturnOutcomes == {[raise |-> "none", written |-> w] : w \in {Absent} \cup Sizes}
EngineOutcomes ==
    ReturnOutcomes
    \cup {[raise |-> r, written |-> Absent] : r \in {"error", "speaker_wav"}}
BatchOutcomes == ReturnOutcomes \cup {[raise |-> "error", written |-> Absent]}

Raised(e) == e.raise # "none"

\* the file system after an engine call: a returning engine may have written
WriteFile(files, path, e) ==
    IF e.written = Absent THEN files ELSE [files EXCEPT ![path] = e.written]

EngineCall(engine, mode, text, lang, speed, speaker, e) ==
    [engine |-> engine, mode |-> mode, text |-> text, language |-> lang,
     speed |-> speed, speaker_wav |-> speaker, raise |-> e.raise]

Outcome(ret, files, calls, log) ==
    [ret |-> ret, fs |-> files, calls |-> calls, log |-> log]

-----------------------------------------------------------------------------
(* Language selection *)

\* 'uk' if any(c in '<cyrillic>' for c in text.lower()) else 'en'
DetectLang(text) ==
    IF \E c \in Range(Lower(text)) : c \in CyrillicLetters THEN "uk" ELSE "en"

\* the language simple_text_to_speech passes to the primary TTS model
SimpleLang(text) ==
    LET detected_lang == DetectLang(text)
    IN  IF detected_lang = "uk"
        THEN IF "ru" \in Range(supported_langs) THEN "ru" ELSE "en"
        ELSE IF detected_lang \in Range(supported_langs) THEN detected_lang ELSE "en"

PickLanguageBug(desired_lang) ==
    IF desired_lang = "uk"
    THEN IF "ru" \in Range(supported_languages) THEN "ru" ELSE "en"
    ELSE "en"

PickLanguageNoRelated(desired_lang) ==
    IF desired_lang \in Range(supported_languages) THEN desired_lang ELSE "en"

_pick_language(desired_lang) ==
    IF desired_lang \in Range(supported_languages)
    THEN desired_lang
    ELSE IF desired_lang = "uk"
         THEN IF "ru" \in Range(supported_languages) THEN "ru" ELSE "en"
         ELSE "en"

ClampSpeedBug(speed) == IF speed > SpeedMax THEN SpeedMax ELSE speed

\* max(0.5, min(2.0, speed))
ClampSpeed(speed) ==
    LET m == IF speed < SpeedMax THEN speed ELSE SpeedMax
    IN  IF m > SpeedMin THEN m ELSE SpeedMin

-----------------------------------------------------------------------------
(* _fallback_tts *)

\* self.available_engines as __init__ builds it; TTS is importable whenever
\* __init__ returns
available_engines(EDGE_TTS_AVAILABLE) ==
    <<"TTS">>
    \o (IF GTTS_AVAILABLE THEN <<"GTTS">> ELSE <<>>)
    \o (IF PYTTSX3_AVAILABLE THEN <<"PYTTSX3">> ELSE <<>>)
    \o (IF EDGE_TTS_AVAILABLE THEN <<"EDGE_TTS">> ELSE <<>>)

FallbackEngineSwapped ==
    IF PYTTSX3_AVAILABLE /\ primary_engine # "PYTTSX3" THEN "PYTTSX3"
    ELSE IF GTTS_AVAILABLE /\ primary_engine # "GTTS" THEN "GTTS"
    ELSE "none"

\* which engine _fallback_tts runs, "none" when no branch applies
FallbackEngine ==
    IF GTTS_AVAILABLE /\ primary_engine # "GTTS" THEN "GTTS"
    ELSE IF PYTTSX3_AVAILABLE /\ primary_engine # "PYTTSX3" THEN "PYTTSX3"
    ELSE "none"

\* the size check of the gTTS fallback: file_size > 1000
FallbackSizeOk(size) == size > MinFileSize

\* a fallback that goes on to pyttsx3 when gTTS raised
FallbackTryBoth(text, output_path, files, e) ==
    LET first == EngineCall("GTTS", "plain", text, DetectLang(text), 0, None, e)
        second == EngineCall("PYTTSX3", "plain", text, "none", 0, None, e)
    IN  IF FallbackEngine = "none"
        THEN Outcome(FALSE, files, <<>>, <<>>)
        ELSE IF Raised(e)
        THEN Outcome(FALSE, files, <<first, second>>, <<"fallback_error">>)
        ELSE Outcome(TRUE, WriteFile(files, output_path, e), <<first>>,
                     <<"fallback_used">>)

\* e is what the fallback engine does when it is called
_fallback_tts(text, output_path, files, e) ==
    IF FallbackEngine = "GTTS"
    THEN LET lang == DetectLang(text)
             call == EngineCall("GTTS", "plain", text, lang, 0, None, e)
             after == WriteFile(files, output_path, e)
         IN  IF Raised(e)
             THEN Outcome(FALSE, files, <<call>>, <<"fallback_error">>)
             ELSE IF Exists(after, output_path)
                  THEN IF FallbackSizeOk(after[output_path])
                       THEN Outcome(TRUE, after, <<call>>, <<"fallback_used">>)
                       ELSE Outcome(FALSE, after, <<call>>, <<"fallback_empty">>)
                  ELSE Outcome(FALSE, after, <<call>>, <<>>)
    ELSE IF FallbackEngine = "PYTTSX3"
    THEN LET call == EngineCall("PYTTSX3", "plain", text, "none", 0, None, e)
         IN  IF Raised(e)
             THEN Outcome(FALSE, files, <<call>>, <<"fallback_error">>)
             ELSE Outcome(TRUE, WriteFile(files, output_path, e), <<call>>,
                          <<"fallback_used">>)
    ELSE Outcome(FALSE, files, <<>>, <<>>)

-----------------------------------------------------------------------------
(* simple_text_to_speech *)

\* the except handler of simple_text_to_speech: report, then fall back
SimpleHandler(text, output_path, files, call, e2) ==
    LET fb == _fallback_tts(text, output_path, files, e2)
    IN  Outcome(fb.ret, fb.fs, <<call>> \o fb.calls,
                <<"primary_error">> \o fb.log)

\* e1 is what the primary engine does, e2 what the fallback engine does
simple_text_to_speech(text, output_path, files, e1, e2) ==
    IF primary_engine = "TTS" /\ tts # "None"
    THEN LET lang == SimpleLang(text)
             note == IF DetectLang(text) = "uk"
                     THEN <<"uk_unsupported">> ELSE <<>>
             call == EngineCall("TTS", "plain", text, lang, 0, None, e1)
         IN  IF Raised(e1)
             THEN LET h == SimpleHandler(text, output_path, files, call, e2)
                  IN  Outcome(h.ret, h.fs, h.calls, note \o h.log)
             ELSE Outcome(TRUE, WriteFile(files, output_path, e1), <<call>>,
                          note \o <<"saved">>)
    ELSE IF primary_engine = "GTTS"
    THEN LET lang == DetectLang(text)
             call == EngineCall("GTTS", "plain", text, lang, 0, None, e1)
             after == WriteFile(files, output_path, e1)
             warn == IF Exists(after, output_path)
                        /\ after[output_path] < MinFileSize
                     THEN <<"maybe_empty">> ELSE <<>>
         IN  IF Raised(e1)
             THEN SimpleHandler(text, output_path, files, call, e2)
             ELSE Outcome(TRUE, after, <<call>>, warn \o <<"saved">>)
    ELSE IF primary_engine = "PYTTSX3" /\ tts_engine # "None"
    THEN LET call == EngineCall("PYTTSX3", "plain", text, "none", 0, None, e1)
         IN  IF Raised(e1)
             THEN SimpleHandler(text, output_path, files, call, e2)
             ELSE Outcome(TRUE, WriteFile(files, output_path, e1), <<call>>,
                          <<"saved">>)
    ELSE Outcome(FALSE, files, <<>>, <<"no_engine">>)

-----------------------------------------------------------------------------
(* clone_voice_from_sample *)

SpeakerMissingNever(files, speaker_wav_path) == FALSE

\* not os.path.exists(speaker_wav_path)
SpeakerMissing(files, speaker_wav_path) == ~Exists(files, speaker_wav_path)

CloningUnavailableNever == FALSE

\* self.primary_engine != "TTS" or self.tts is None
CloningUnavailable == primary_engine # "TTS" \/ tts = "None"

\* e is what the cloning engine does when it is called
clone_voice_from_sample(text, speaker_wav_path, output_path, language, speed, files, e) ==
    IF CloningUnavailable
    THEN Outcome(FALSE, files, <<>>, <<"cloning_unavailable">>)
    ELSE IF SpeakerMissing(files, speaker_wav_path)
    THEN Outcome(FALSE, files, <<>>, <<"missing_reference">>)
    ELSE LET selected_lang == _pick_language(language)
             note == IF selected_lang # language
                     THEN <<"language_substituted">> ELSE <<>>
             call == EngineCall("TTS", "clone", text, selected_lang,
                                ClampSpeed(speed), speaker_wav_path, e)
             after == WriteFile(files, output_path, e)
         IN  IF Raised(e)
             THEN Outcome(FALSE, files, <<call>>,
                          note \o <<"clone_error">>
                          \o (IF e.raise = "speaker_wav"
                              THEN <<"speaker_wav_hint">> ELSE <<>>))
             ELSE IF Exists(after, output_path)
                  THEN Outcome(TRUE, after, <<call>>, note \o <<"cloned">>)
                  ELSE Outcome(FALSE, after, <<call>>, note \o <<"not_created">>)

-----------------------------------------------------------------------------
(* Inputs *)

\* "", " ", "hi", and the capitals of "zhi" in Cyrillic
Texts == {<<>>, <<32>>, <<104, 105>>, <<1046, 1048>>}
CloneTexts == {<<>>, <<104, 105>>}

Langs == {"en", "uk", "ru", "xx"}
BatchLangs == {"uk", "en"}
Speeds == {3, 5, 13, 25}

\* a row of the data frame: the cell of the text column.  read_csv turns an
\* empty cell into NaN, so a cell is NaN or a non-empty string.
Row(v) == [t |-> "row", has |-> TRUE, v |-> v]
CsvRows == {Row(NaN), Row(StrVal(<<32>>)), Row(StrVal(<<104, 105>>))}

\* an element of the JSON array: an object with or without the text field,
\* or a value that is not an object (a number)
Dict(v) == [t |-> "dict", has |-> TRUE, v |-> v]
DictNoText == [t |-> "dict", has |-> FALSE, v |-> Null]
Scalar == [t |-> "scalar", has |-> FALSE, v |-> Null]
JsonItems == {DictNoText, Scalar, Dict(StrVal(<<>>)),
              Dict(StrVal(<<1046, 1048>>))}

SeqsUpTo(S, n) == UNION {[1..k -> S] : k \in 0..n}

\* what json.load returns: an array, one object, or a number
JsonDocs ==
    {[t |-> "list", items |-> d] : d \in SeqsUpTo(JsonItems, MaxItems)}
    \cup {[t |-> "dict", items |-> <<Dict(StrVal(<<1046, 1048>>))>>]}
    \cup {[t |-> "scalar", items |-> <<>>]}

SpeakerArgs == {None, SpeakerSample}

-----------------------------------------------------------------------------
(* State *)

EmptyResults == [success |-> <<>>, failed |-> <<>>]

NoCall ==
    [op |-> "none", via |-> "none", text |-> <<>>, speaker_wav |-> None,
     language |-> "none", speed |-> 0, output_path |-> <<>>,
     ref_existed |-> FALSE, ret |-> FALSE, calls |-> <<>>, log |-> <<>>]

NoBatch ==
    [kind |-> "none", data |-> <<>>, speaker_wav_path |-> None,
     language |-> "none", load |-> "none"]

\* VoiceCloner.__init__ returns only when Coqui TTS loaded: the primary engine
\* is "TTS" and the model handle is set; the other engines may be installed
Init ==
    /\ GTTS_AVAILABLE \in BOOLEAN
    /\ PYTTSX3_AVAILABLE \in BOOLEAN
    /\ primary_engine = "TTS"
    /\ tts = "model"
    /\ tts_engine = "None"
    /\ fs \in {[p \in Paths |-> IF p = SpeakerSample THEN s ELSE Absent] :
                s \in {Absent, 1001}}
    /\ last = NoCall
    /\ pc = "idle"
    /\ batch = NoBatch
    /\ idx = 0
    /\ results = EmptyResults
    /\ skipped = 0
    /\ dispatched = {}
    /\ report = EmptyResults

config == <<GTTS_AVAILABLE, PYTTSX3_AVAILABLE, primary_engine, tts, tts_engine>>
run == <<pc, batch, idx, results, skipped, dispatched, report>>

CallRecord(op, via, text, spk, lang, speed, out, files, r) ==
    [op |-> op, via |-> via, text |-> text, speaker_wav |-> spk,
     language |-> lang, speed |-> speed, output_path |-> out,
     ref_existed |-> Exists(files, spk), ret |-> r.ret, calls |-> r.calls,
     log |-> r.log]

\* a caller invokes cloner.simple_text_to_speech(text, output_path)
CallSimple ==
    /\ pc = "idle"
    /\ \E text \in Texts, e1 \in EngineOutcomes, e2 \in EngineOutcomes :
        LET r == simple_text_to_speech(text, DirectOutput, fs, e1, e2)
        IN  /\ fs' = r.fs
            /\ last' = CallRecord("simple", "direct", text, None, "none", 0,
                                  DirectOutput, fs, r)
            /\ UNCHANGED <<config, run>>

\* a caller invokes cloner.clone_voice_from_sample(text, speaker_wav_path,
\* output_path, language, speed)
CallClone ==
    /\ pc = "idle"
    /\ \E text \in CloneTexts, lang \in Langs, speed \in Speeds,
          e \in EngineOutcomes :
        LET r == clone_voice_from_sample(text, SpeakerSample, DirectOutput,
                                         lang, speed, fs, e)
        IN  /\ fs' = r.fs
            /\ last' = CallRecord("clone", "direct", text, SpeakerSample,
                                  lang, speed, DirectOutput, fs, r)
            /\ UNCHANGED <<config, run>>

-----------------------------------------------------------------------------
(* process_csv_file / process_json_file *)

\* pd.isna(text) or text.strip() == "", with text = str(row[text_column])
CsvSkip(text) == IsNa(StrVal(text)) \/ Strip(text) = <<>>

\* not text.strip(), with text = str(item[text_field])
JsonSkip(text) == Strip(text) = <<>>

UseCloneAlways(files, speaker_wav_path) == Truthy(speaker_wav_path)

\* speaker_wav_path and os.path.exists(speaker_wav_path)
UseClone(files, speaker_wav_path) ==
    Truthy(speaker_wav_path) /\ Exists(files, speaker_wav_path)

\* f"Row {idx}: {text[:30]}" / f"Item {idx}: {text[:30]}"
FailedEntry(label, i, text) ==
    [label |-> label, idx |-> i, text |-> Prefix(text, TextPreview)]

RecordDropFailed(res, success, output_path, entry) ==
    IF success
    THEN [res EXCEPT !.success = Append(@, output_path)]
    ELSE res

\* results["success"].append(...) / results["failed"].append(...)
Record(res, success, output_path, entry) ==
    IF success
    THEN [res EXCEPT !.success = Append(@, output_path)]
    ELSE [res EXCEPT !.failed = Append(@, entry)]

\* the body of the loop for a non-blank text: pick the dispatcher, call it,
\* record the result
DispatchItem(label, text, e1, e2) ==
    LET output_path == OutputPath(OutputDir, idx)
        spk == batch.speaker_wav_path
        clone == UseClone(fs, spk)
        r == IF clone
             THEN clone_voice_from_sample(text, spk, output_path,
                                          batch.language, DefaultSpeed, fs, e1)
             ELSE simple_text_to_speech(text, output_path, fs, e1, e2)
    IN  /\ fs' = r.fs
        /\ last' = IF clone
                   THEN CallRecord("clone", batch.kind, text, spk,
                                   batch.language, DefaultSpeed, output_path,
                                   fs, r)
                   ELSE CallRecord("simple", batch.kind, text, spk,
                                   batch.language, 0, output_path, fs, r)
        /\ results' = Record(results, r.ret, output_path,
                             FailedEntry(label, idx, text))
        /\ dispatched' = dispatched \cup {idx}
        /\ idx' = idx + 1
        /\ UNCHANGED <<config, pc, batch, skipped, report>>

\* `continue`
SkipItem ==
    /\ skipped' = skipped + 1
    /\ idx' = idx + 1
    /\ UNCHANGED <<config, fs, last, pc, batch, results, dispatched, report>>

ExceptReturnPartial(res) == res

\* what the outer except handler returns: {"success": [], "failed": []}
ExceptReturn(res) == EmptyResults

\* an exception escapes the loop and the outer except handler returns
AbortBatch ==
    /\ pc' = "done"
    /\ report' = ExceptReturn(results)
    /\ UNCHANGED <<config, fs, last, batch, idx, results, skipped, dispatched>>

\* a caller invokes cloner.process_csv_file(csv_path, "text", speaker_wav_path,
\* output_dir, language); load is what reading the file and creating the
\* directory do
StartCsv ==
    /\ pc = "idle"
    /\ \E load \in {"ok", "read_error", "no_column", "mkdir_error"},
          spk \in SpeakerArgs, lang \in BatchLangs :
       \E data \in IF load = "ok" THEN SeqsUpTo(CsvRows, MaxItems) ELSE {<<>>} :
        /\ batch' = [kind |-> "csv", data |-> data,
                     speaker_wav_path |-> spk, language |-> lang,
                     load |-> load]
        /\ pc' = IF load = "ok" THEN "loop" ELSE "done"
        /\ idx' = 0
        /\ results' = EmptyResults
        /\ skipped' = 0
        /\ dispatched' = {}
        /\ report' = EmptyResults
        /\ last' = NoCall
        /\ UNCHANGED <<config, fs>>

\* isinstance(data, dict): data = [data]; len(data) raises for a number
StartJson ==
    /\ pc = "idle"
    /\ \E load \in {"ok", "read_error", "mkdir_error"},
          spk \in SpeakerArgs, lang \in BatchLangs :
       \E doc \in IF load = "ok" THEN JsonDocs
                   ELSE {[t |-> "list", items |-> <<>>]} :
        LET ok == load = "ok" /\ doc.t # "scalar"
        IN  /\ batch' = [kind |-> "json",
                         data |-> IF ok THEN doc.items ELSE <<>>,
                         speaker_wav_path |-> spk, language |-> lang,
                         load |-> IF load = "ok" /\ ~ok THEN "not_a_list"
                                  ELSE load]
            /\ pc' = IF ok THEN "loop" ELSE "done"
            /\ idx' = 0
            /\ results' = EmptyResults
            /\ skipped' = 0
            /\ dispatched' = {}
            /\ report' = EmptyResults
            /\ last' = NoCall
            /\ UNCHANGED <<config, fs>>

\* one iteration of `for idx, row in df.iterrows()`
CsvItem ==
    /\ pc = "loop"
    /\ batch.kind = "csv"
    /\ idx < Len(batch.data)
    /\ LET text == Str(batch.data[idx + 1].v)
       IN  IF CsvSkip(text)
           THEN SkipItem
           ELSE \E e1 \in BatchOutcomes, e2 \in BatchOutcomes :
                    DispatchItem("Row", text, e1, e2)

\* one iteration of `for idx, item in enumerate(data)`; `text_field not in
\* item` raises TypeError for an item that is a number
JsonItem ==
    /\ pc = "loop"
    /\ batch.kind = "json"
    /\ idx < Len(batch.data)
    /\ LET item == batch.data[idx + 1]
       IN  IF item.t # "dict"
           THEN AbortBatch
           ELSE IF ~item.has
           THEN SkipItem
           ELSE IF JsonSkip(Str(item.v))
           THEN SkipItem
           ELSE \E e1 \in BatchOutcomes, e2 \in BatchOutcomes :
                    DispatchItem("Item", Str(item.v), e1, e2)

\* the loop is exhausted: return results
FinishBatch ==
    /\ pc = "loop"
    /\ idx = Len(batch.data)
    /\ pc' = "done"
    /\ report' = results
    /\ UNCHANGED <<config, fs, last, batch, idx, results, skipped, dispatched>>

Next ==
    \/ CallSimple
    \/ CallClone
    \/ StartCsv
    \/ StartJson
    \/ CsvItem
    \/ JsonItem
    \/ FinishBatch

Spec == Init /\ [][Next]_vars

\* The two dispatchers as functions of the object's fields: the fields hold
\* any of the values the dispatchers' conditions tell apart, as when a caller
\* assigns them.  __init__ itself leaves only the values of Init.
InitFields ==
    /\ GTTS_AVAILABLE \in BOOLEAN
    /\ PYTTSX3_AVAILABLE \in BOOLEAN
    /\ primary_engine \in {"TTS", "GTTS", "PYTTSX3"}
    /\ tts \in {"model", "None"}
    /\ tts_engine \in {"engine", "None"}
    /\ fs \in {[p \in Paths |-> IF p = SpeakerSample THEN s ELSE Absent] :
                s \in {Absent, 1001}}
    /\ last = NoCall
    /\ pc = "idle"
    /\ batch = NoBatch
    /\ idx = 0
    /\ results = EmptyResults
    /\ skipped = 0
    /\ dispatched = {}
    /\ report = EmptyResults

NextDirect ==
    \/ CallSimple
    \/ CallClone

SpecFields == InitFields /\ [][NextDirect]_vars

-----------------------------------------------------------------------------
(* Properties *)

Calls == Range(last.calls)
Logged(tag) == tag \in Range(last.log)
Requested == last.op # "none"
InBatch == last.via \in {"csv", "json"}

\* the item has a text with something other than whitespace in it
HasText(item) ==
    item.t \in {"row", "dict"} /\ item.has /\ item.v.t = "str"
    /\ Strip(item.v.s) # <<>>

\* the item's text is empty, missing or all whitespace
IsBlank(item) ==
    item.t \in {"row", "dict"}
    /\ (~item.has \/ item.v.t = "nan"
        \/ (item.v.t = "str" /\ Strip(item.v.s) = <<>>))

InSuccess(i) == OutputPath(OutputDir, i) \in Range(results.success)
InFailed(i) == \E entry \in Range(results.failed) : entry.idx = i

\* C1: when a batch run returns, the lengths of the returned success and
\* failed lists and the number of skipped items add up to the number of
\* input items.
C1_BatchAccounting ==
    pc = "done" =>
        Len(report.success) + Len(report.failed) + skipped = Len(batch.data)

\* C2: a dispatch that fails appends the item to the failed list, leaves the
\* success list alone and goes on to the next iteration; and every item with
\* a text that the loop has passed was dispatched and is in exactly one list.
C2_StepIsolated ==
    (pc = "loop" /\ dispatched' # dispatched /\ ~last'.ret) =>
        /\ pc' = "loop"
        /\ idx' = idx + 1
        /\ Len(results'.failed) = Len(results.failed) + 1
        /\ results'.failed[Len(results'.failed)].idx = idx
        /\ SubSeq(results'.failed, 1, Len(results.failed)) = results.failed
        /\ results'.success = results.success

C2_PassedItemsRecorded ==
    \A i \in 0..(idx - 1) :
        HasText(batch.data[i + 1]) =>
            i \in dispatched /\ (InSuccess(i) # InFailed(i))

C2_FailureIsolation == [][C2_StepIsolated]_vars /\ []C2_PassedItemsRecorded

\* a later item was dispatched after an earlier one had failed
C2_Witness ==
    \E i \in dispatched, j \in dispatched : i < j /\ InFailed(i)

\* C3: no dispatcher is called for an item whose text is empty, missing or
\* all whitespace, and the item is in neither list.
C3_BlankSkipped ==
    \A i \in 0..(idx - 1) :
        IsBlank(batch.data[i + 1]) =>
            i \notin dispatched /\ ~InSuccess(i) /\ ~InFailed(i)

PrimaryFailedHard ==
    Requested /\ Len(last.calls) >= 1 /\ last.calls[1].raise # "none"
FallbackAttempts == Len(last.calls) - 1
FirstReportedIsPrimary ==
    \E k \in 1..Len(last.log) :
        /\ last.log[k] \in {"primary_error", "clone_error"}
        /\ \A j \in 1..(k - 1) : last.log[j] \notin
               {"fallback_error", "fallback_empty"}

C5_NoEmptySuccess ==
    (Requested /\ last.ret) =>
        Exists(fs, last.output_path) /\ fs[last.output_path] >= MinFileSize

\* C6: clone_voice_from_sample called with a reference that does not exist
\* returns False with the missing-reference report and calls no engine; no
\* engine is ever called in cloning mode unless the reference existed.
C6_MissingReferenceRejected ==
    /\ (last.op = "clone" /\ ~last.ref_existed) =>
           ~last.ret /\ last.calls = <<>> /\ Logged("missing_reference")
    /\ \A c \in Calls :
           c.mode = "clone" =>
               last.ref_existed /\ c.speaker_wav = last.speaker_wav

\* a cloning call was made with a missing reference
C6_Witness == last.op = "clone" /\ ~last.ref_existed /\ ~last.ret

CloningRequested == last.op = "clone" \/ (InBatch /\ Truthy(last.speaker_wav))

C8_SpeedClamped ==
    \A c \in Calls :
        c.mode = "clone" =>
            /\ last.speed < SpeedMin => c.speed = SpeedMin
            /\ last.speed > SpeedMax => c.speed = SpeedMax
            /\ (last.speed >= SpeedMin /\ last.speed <= SpeedMax)
                   => c.speed = last.speed

\* the cloning engine was called for a request with a speed below the range
C8_Witness ==
    \E c \in Calls : c.mode = "clone" /\ last.speed < SpeedMin

\* C9: a supported desired language is passed on unchanged, and resolving
\* the resolved language gives it again.
C9_SupportedUnchanged ==
    \A c \in Calls :
        (c.mode = "clone" /\ last.language \in Range(supported_languages)) =>
            /\ c.language = last.language
            /\ _pick_language(c.language) = c.language

\* the cloning engine was called for a supported language other than the
\* default
C9_Witness ==
    \E c \in Calls : c.mode = "clone" /\ last.language = "ru"

\* C10: "uk" always resolves to "ru", in clone_voice_from_sample and in the
\* primary branch of simple_text_to_speech; any other unsupported language
\* resolves to "en".
C10_Substitution ==
    \A c \in Calls :
        /\ (c.mode = "clone" /\ last.language = "uk") => c.language = "ru"
        /\ (c.mode = "clone" /\ last.language # "uk"
              /\ last.language \notin Range(supported_languages))
                => c.language = "en"
        /\ (c.mode = "plain" /\ c.engine = "TTS"
              /\ DetectLang(last.text) = "uk") => c.language = "ru"

\* the cloning engine was called for a request in Ukrainian
C10_Witness ==
    \E c \in Calls : c.mode = "clone" /\ last.language = "uk"

\* C11: a direct call with empty text returns False and calls no engine.
C11_EmptyTextRejected ==
    (Requested /\ last.via = "direct" /\ last.text = <<>>) =>
        ~last.ret /\ last.calls = <<>>

C12_Rejected ==
    (last.op = "clone" /\ (primary_engine # "TTS" \/ tts = "None")) =>
        ~last.ret /\ last.calls = <<>> /\ last.log = <<"cloning_unavailable">>

C12_NothingWritten ==
    (last'.op = "clone" /\ (primary_engine # "TTS" \/ tts = "None")) =>
        fs' = fs

\* C12: when the primary engine is not "TTS" or the model handle is absent,
\* clone_voice_from_sample returns False, calls no engine, leaves every file
\* as it was, and reports neither on the reference nor on the language.
C12_FailFast == []C12_Rejected /\ [][C12_NothingWritten]_vars

\* a cloning call on a non-cloning primary whose reference was missing and
\* whose language is unsupported
C12_Witness ==
    /\ last.op = "clone" /\ primary_engine # "TTS"
    /\ ~last.ref_existed /\ last.language = "uk" /\ ~last.ret

LatestDispatched == CHOOSE i \in dispatched : \A j \in dispatched : j <= i

\* the directory, "audio_", the index as four decimal digits, ".wav"
ExpectedPath(i) ==
    <<OutputDir, "/", "audio_", (i \div 1000) % 10, (i \div 100) % 10,
      (i \div 10) % 10, i % 10, ".wav">>

\* C13: the output path of a dispatched item is the zero-padded name of its
\* index and of nothing else, the names of two dispatched items differ, and
\* the success list holds such names without repetition.
C13_Naming ==
    /\ (InBatch /\ dispatched # {}) =>
           last.output_path = ExpectedPath(LatestDispatched)
    /\ \A i \in dispatched, j \in dispatched :
           i # j => OutputPath(OutputDir, i) # OutputPath(OutputDir, j)
    /\ \A k \in 1..Len(results.success) :
           /\ \E i \in dispatched : results.success[k] = ExpectedPath(i)
           /\ \A m \in 1..Len(results.success) :
                  m # k => results.success[m] # results.success[k]

\* two items of one run were written
C13_Witness == Len(results.success) >= 2

\* C14: an engine call whose language differs from the language the caller
\* asked for comes with a report of the substitution.
C14_SubstitutionReported ==
    \A c \in Calls :
        (last.language # "none" /\ c.language # "none"
         /\ c.language # last.language) =>
            Logged("language_substituted") \/ Logged("uk_unsupported")

PositionIn(seq, x) == CHOOSE k \in 1..Len(seq) : seq[k] = x

Escaped == pc = "done" /\ (batch.load # "ok" \/ idx < Len(batch.data))

\* C16: a batch call always returns; when loading failed, the column was
\* absent, the directory could not be made or an exception left the loop,
\* the returned success and failed lists are empty.
C16_EmptyReportOnError ==
    /\ pc \in {"idle", "loop", "done"}
    /\ Escaped => report = EmptyResults

\* an exception left the loop after an item had been recorded
C16_Witness ==
    Escaped /\ idx < Len(batch.data) /\ results # EmptyResults
    /\ report = EmptyResults

====
